---- MODULE Spec2Model ----
(***************************************************************************)
(* Model of the Google Sheets JSON -> YAML sync script (sync-data.js):     *)
(* fetchJson, normalizeBoolean, normalizeData, validateData,               *)
(* writeYamlFile, fetchSheetData, syncSheet and main.                      *)
(*                                                                         *)
(* Two specifications share the variables:                                 *)
(*   Spec      the orchestrator main() over the configured sheets;         *)
(*   SpecNorm  the pure functions normalizeData / validateData applied to  *)
(*             a bounded universe of JSON values.                          *)
(***************************************************************************)
EXTENDS Integers, Sequences, FiniteSets, TLC

\* ------------------------------------------------------------------ bounds
\* Longest array / largest number of object entries in the JSON universe.
MaxLen == 2

\* ------------------------------------------------------------ JSON values
\* A JSON value is a record with a tag t and one payload field per type
\* (the fields of the other types hold a fixed default):
\*   "null" | "bool" b | "num" n | "str" s, a tuple of characters
\*   "arr" a, a tuple of values | "obj" o, a tuple of <<key, value>>
\*   entries in insertion order (the order Object.entries walks them).
Json(t, b, n, s, a, o) == [t |-> t, b |-> b, n |-> n, s |-> s, a |-> a, o |-> o]
Null == Json("null", FALSE, 0, <<>>, <<>>, <<>>)
Bool(b) == Json("bool", b, 0, <<>>, <<>>, <<>>)
Num(n) == Json("num", FALSE, n, <<>>, <<>>, <<>>)
Str(s) == Json("str", FALSE, 0, s, <<>>, <<>>)
Arr(a) == Json("arr", FALSE, 0, <<>>, a, <<>>)
Obj(e) == Json("obj", FALSE, 0, <<>>, <<>>, e)

\* Array.isArray(x)
IsArray(x) == x.t = "arr"

\* typeof x  (null, arrays and plain objects are all "object")
TypeOf(x) ==
  CASE x.t = "str" -> "string"
    [] x.t = "num" -> "number"
    [] x.t = "bool" -> "boolean"
    [] OTHER -> "object"

\* x === y on JSON scalars / identity tests used by the code (=== null, === '')
StrictEq(x, y) == x = y

\* !x : the falsy JSON values are null, false, 0 and ''
Falsy(x) ==
  \/ x.t = "null"
  \/ (x.t = "bool" /\ x.b = FALSE)
  \/ (x.t = "num" /\ x.n = 0)
  \/ (x.t = "str" /\ x.s = <<>>)

\* ---------------------------------------------------------------- strings
IsWhitespace(c) == c \in {" ", "\t"}

\* Fault: a trim that strips one whitespace character per end, as
\* replace(/^\s|\s$/g, '') would.
trimOnce(s) ==
  LET a == IF Len(s) > 0 /\ IsWhitespace(s[1]) THEN Tail(s) ELSE s
  IN  IF Len(a) > 0 /\ IsWhitespace(a[Len(a)]) THEN SubSeq(a, 1, Len(a) - 1) ELSE a

\* String.prototype.trim
trim(s) ==
  LET keep == {i \in 1..Len(s) : ~IsWhitespace(s[i])}
  IN  IF keep = {} THEN <<>>
      ELSE LET lo == CHOOSE i \in keep : \A j \in keep : i <= j
               hi == CHOOSE i \in keep : \A j \in keep : i >= j
           IN  SubSeq(s, lo, hi)

LowerChar(c) ==
  CASE c = "T" -> "t" [] c = "R" -> "r" [] c = "U" -> "u" [] c = "E" -> "e"
    [] c = "Y" -> "y" [] c = "S" -> "s" [] c = "N" -> "n" [] c = "O" -> "o"
    [] c = "F" -> "f" [] c = "A" -> "a" [] c = "L" -> "l"
    [] OTHER -> c

\* String.prototype.toLowerCase
toLowerCase(s) == [i \in 1..Len(s) |-> LowerChar(s[i])]

\* String literals of the code, as character tuples.
sTrue == <<"t", "r", "u", "e">>
sFalse == <<"f", "a", "l", "s", "e">>
sYes == <<"y", "e", "s">>
sNo == <<"n", "o">>
sOne == <<"1">>

\* ------------------------------------------------------ normalizeBoolean
\* The value normalizeBoolean returns (a native boolean).
normalizeBoolean(value) ==
  IF TypeOf(value) = "boolean" THEN value.b
  ELSE IF TypeOf(value) # "string" THEN FALSE
  ELSE LET normalized == trim(toLowerCase(value.s))
       IN  normalized = sTrue \/ normalized = sYes \/ normalized = sOne

\* --------------------------------------------------------- normalizeData
\* Fault: the boolean-looking test placed before the string test.
FieldBranchBooleanFirst(value) ==
  IF value = Null \/ value = Str(<<>>) THEN "empty"
  ELSE IF TypeOf(value) = "string"
          /\ (\/ toLowerCase(value.s) = sTrue
              \/ toLowerCase(value.s) = sFalse
              \/ toLowerCase(value.s) = sYes
              \/ toLowerCase(value.s) = sNo) THEN "boolean"
  ELSE IF TypeOf(value) = "string" THEN "trim"
  ELSE IF TypeOf(value) = "object" THEN "recurse"
  ELSE "keep"

\* Which arm of the per-value if / else-if chain of normalizeData's loop
\* body handles `value`; the arms are tested in the order of the code.
FieldBranch(value) ==
  IF StrictEq(value, Null) \/ StrictEq(value, Str(<<>>)) THEN "empty"
  ELSE IF TypeOf(value) = "string" THEN "trim"
  ELSE IF TypeOf(value) = "string"
          /\ (\/ toLowerCase(value.s) = sTrue
              \/ toLowerCase(value.s) = sFalse
              \/ toLowerCase(value.s) = sYes
              \/ toLowerCase(value.s) = sNo) THEN "boolean"
  ELSE IF TypeOf(value) = "object" THEN "recurse"
  ELSE "keep"

RECURSIVE normalizeData(_)

\* normalized[key] for one entry of the mapping.
NormalizeField(value) ==
  LET arm == FieldBranch(value)
  IN  CASE arm = "empty" -> Str(<<>>)
        [] arm = "trim" -> Str(trim(value.s))
        [] arm = "boolean" -> Bool(normalizeBoolean(value))
        [] arm = "recurse" -> normalizeData(value)
        [] OTHER -> value

\* Fault: "Skip empty values" taken literally, the entry left out.
NormalizeEntriesSkipEmpty(entries) ==
  LET kept == SelectSeq(entries, LAMBDA e : FieldBranch(e[2]) # "empty")
  IN  [i \in 1..Len(kept) |-> <<kept[i][1], NormalizeField(kept[i][2])>>]

\* The loop over Object.entries(data): one output entry per input entry,
\* under the same key.
NormalizeEntries(entries) ==
  [i \in 1..Len(entries) |-> <<entries[i][1], NormalizeField(entries[i][2])>>]

normalizeData(data) ==
  IF IsArray(data)
  THEN Arr([i \in 1..Len(data.a) |-> normalizeData(data.a[i])])
  ELSE IF TypeOf(data) = "object" /\ ~StrictEq(data, Null)
  THEN Obj(NormalizeEntries(data.o))
  ELSE data

\* The arms of the per-value chain that one call normalizeData(data) takes,
\* over the whole traversal (every mapping it visits).
RECURSIVE BranchesTaken(_)
BranchesTaken(data) ==
  IF IsArray(data)
  THEN UNION {BranchesTaken(data.a[i]) : i \in 1..Len(data.a)}
  ELSE IF TypeOf(data) = "object" /\ ~StrictEq(data, Null)
  THEN UNION {{FieldBranch(data.o[i][2])}
                \cup (IF FieldBranch(data.o[i][2]) = "recurse"
                      THEN BranchesTaken(data.o[i][2]) ELSE {})
              : i \in 1..Len(data.o)}
  ELSE {}

\* ---------------------------------------------------------- validateData
\* An Error's message: `kind` is the fixed text, `subject` and `num` the
\* interpolated parts.
Error(kind, subject, num) == [kind |-> kind, subject |-> subject, num |-> num]
NoError == Error("", "", 0)

\* Fault: the array test written as typeof data !== 'object'.
validateDataTypeof(sheetName, data) ==
  IF TypeOf(data) # "object"
  THEN [threw |-> TRUE, warned |-> FALSE,
        error |-> Error("is not an array", sheetName, 0)]
  ELSE IF Len(data.a) = 0
  THEN [threw |-> FALSE, warned |-> TRUE, error |-> NoError]
  ELSE [threw |-> FALSE, warned |-> FALSE, error |-> NoError]

\* Fault: the empty table treated as an error.
validateDataRejectsEmpty(sheetName, data) ==
  IF ~IsArray(data) \/ Len(data.a) = 0
  THEN [threw |-> TRUE, warned |-> FALSE,
        error |-> Error("is not an array", sheetName, 0)]
  ELSE [threw |-> FALSE, warned |-> FALSE, error |-> NoError]

\* The outcome of validateData(sheetName, data): it throws `error`, or
\* returns true, having logged the empty-sheet warning or not.
validateData(sheetName, data) ==
  IF ~IsArray(data)
  THEN [threw |-> TRUE, warned |-> FALSE,
        error |-> Error("is not an array", sheetName, 0)]
  ELSE IF Len(data.a) = 0
  THEN [threw |-> FALSE, warned |-> TRUE, error |-> NoError]
  ELSE LET invalidItems ==
             {i \in 1..Len(data.a) :
                TypeOf(data.a[i]) # "object" \/ StrictEq(data.a[i], Null)}
       IN  IF Cardinality(invalidItems) > 0
           THEN [threw |-> TRUE, warned |-> FALSE,
                 error |-> Error("invalid items", sheetName,
                                 Cardinality(invalidItems))]
           ELSE [threw |-> FALSE, warned |-> FALSE, error |-> NoError]

\* ------------------------------------------------- bounded JSON universe
\* Sample strings: empty, whitespace-only, padded, and the boolean
\* vocabulary in several cases and paddings.
Strs ==
  { <<>>, <<" ">>, <<" ", "a", " ">>, <<" ", "\t", "a">>,
    sTrue, <<"Y", "e", "s", " ">>, <<"N", "O">> }

Scalars == {Null, Bool(TRUE), Bool(FALSE), Num(0), Num(7)} \cup {Str(s) : s \in Strs}

\* Scalars used as the leaves of the doubly nested values.
Leaves == {Null, Str(<<" ", "a", " ">>)}

Keys == {"a", "b"}

SeqsUpTo(S, n) == UNION {[1..k -> S] : k \in 0..n}

Arrays(S) == {Arr(a) : a \in SeqsUpTo(S, MaxLen)}

\* Mappings with pairwise distinct keys.
Objects(S) ==
  {Obj(e) : e \in {f \in SeqsUpTo(Keys \X S, MaxLen) :
                     \A i, j \in 1..Len(f) : i # j => f[i][1] # f[j][1]}}

Depth1 == Arrays(Scalars) \cup Objects(Scalars)
Inner == Leaves \cup Arrays(Leaves) \cup Objects(Leaves)
Depth2 == Arrays(Inner) \cup Objects(Inner)
\* Tables whose records hold containers: [{a: [null, " a "]}, {b: {a: "true"}}].
Rows == Objects({Arr(<<Null, Str(<<" ", "a", " ">>)>>), Obj(<<<<"a", Str(sTrue)>>>>)})
Depth3 == Arrays(Rows)

JsonValues == Scalars \cup Depth1 \cup Depth2 \cup Depth3

\* ------------------------------------------------------------------ URLs
\* A URL is a tuple of text pieces; the empty tuple is the empty string.
UrlEmpty == <<>>
UrlPlaceholder == <<"https", "://script.google.com/macros/s/", "YOUR_", "SCRIPT_ID/exec">>
UrlOf(name) == <<"https", "://sheets.example.org/export?sheet=", name>>
UrlRedirected == <<"http", "://script.googleusercontent.com/echo">>

\* url.includes(piece), url.startsWith(piece), and the truthiness of a string
Includes(url, piece) == \E i \in 1..Len(url) : url[i] = piece
StartsWith(url, piece) == Len(url) > 0 /\ url[1] = piece
Truthy(url) == url # <<>>

\* ------------------------------------------------------- response bodies
\* A body is the tuple of chunks the response delivers; JSON.parse is the
\* library's: these texts parse to these values, any other text is a
\* SyntaxError.
Documents ==
  { [text |-> <<"[]">>, value |-> Arr(<<>>)],
    [text |-> <<"[{\"a\":", "\" 1 \"}]">>,
     value |-> Arr(<<Obj(<<<<"a", Str(<<" ", "1", " ">>)>>>>)>>)],
    [text |-> <<"[{\"a\":null,\"b\":\"true\"},", "{\"a\":7}]">>,
     value |-> Arr(<<Obj(<<<<"a", Null>>, <<"b", Str(sTrue)>>>>),
                     Obj(<<<<"a", Num(7)>>>>)>>)],
    [text |-> <<"{\"a\":7}">>, value |-> Obj(<<<<"a", Num(7)>>>>)],
    [text |-> <<"[7]">>, value |-> Arr(<<Num(7)>>)],
    [text |-> <<"null">>, value |-> Null],
    [text |-> <<"false">>, value |-> Bool(FALSE)],
    [text |-> <<"0">>, value |-> Num(0)],
    [text |-> <<"\"\"">>, value |-> Str(<<>>)],
    [text |-> <<"true">>, value |-> Bool(TRUE)],
    [text |-> <<"7">>, value |-> Num(7)],
    [text |-> <<"\"a\"">>, value |-> Str(<<"a">>)] }

Bodies == {d.text : d \in Documents} \cup {<<"<html>", "</html>">>}

JSONparse(text) ==
  IF \E d \in Documents : d.text = text
  THEN [ok |-> TRUE, value |-> (CHOOSE d \in Documents : d.text = text).value,
        error |-> NoError]
  ELSE [ok |-> FALSE, value |-> Null,
        error |-> Error("Unexpected token", "SyntaxError", 0)]

\* ------------------------------------------------------------ the config
SheetNames == <<"board", "events", "staff">>
Names == {SheetNames[i] : i \in 1..Len(SheetNames)}

\* process.argv[2]: a sheet name, a name that is no sheet, or absent.
NoArg == ""
Args == Names \cup {"newsletter", NoArg}

\* config.sheets[name]; Undefined is what indexing a missing key yields.
SheetConfig(url, path) == [defined |-> TRUE, jsonUrl |-> url, outputPath |-> path]
Undefined == [defined |-> FALSE, jsonUrl |-> <<>>, outputPath |-> ""]

\* outputPath of the quick-start configuration
OutputPath(name) ==
  CASE name = "board" -> "data/board/members.yaml"
    [] name = "events" -> "data/events/upcoming.yaml"
    [] OTHER -> "data/staff/favorites.yaml"

UrlKinds == {"empty", "placeholder", "real"}

UrlOfKind(kind, name) ==
  CASE kind = "empty" -> UrlEmpty
    [] kind = "placeholder" -> UrlPlaceholder
    [] OTHER -> UrlOf(name)

\* config.sheets as the ordered list of its entries: no sheet at all, or
\* the three sheets of the quick-start guide, each with one kind of URL.
SheetLists ==
  {<<>>} \cup
  { [i \in 1..Len(SheetNames) |->
       <<SheetNames[i],
         SheetConfig(UrlOfKind(k[i], SheetNames[i]), OutputPath(SheetNames[i]))>>] :
      k \in [1..Len(SheetNames) -> UrlKinds] }

Configs ==
  { [sheets |-> sh, options |-> [validateData |-> v, backupBeforeSync |-> k]] :
      sh \in SheetLists, v \in BOOLEAN, k \in BOOLEAN }

\* Object.keys(sheets) and sheets[name]
KeysOf(sheets) == {sheets[i][1] : i \in 1..Len(sheets)}
Lookup(sheets, name) ==
  IF name \in KeysOf(sheets)
  THEN (CHOOSE i \in 1..Len(sheets) : sheets[i][1] = name)
  ELSE 0
Index(sheets, name) ==
  IF Lookup(sheets, name) = 0 THEN Undefined ELSE sheets[Lookup(sheets, name)][2]

\* ------------------------------------------------------------ filesystem
\* The content of a path: absent, a YAML document, or a file cut short.
File(kind, doc) == [kind |-> kind, doc |-> doc]
NoFile == File("absent", Null)
Truncated == File("truncated", Null)
\* What an earlier run left behind.
OldFile == File("yaml", Arr(<<Obj(<<<<"a", Str(<<"o", "l", "d">>)>>>>)>>))

\* What the run before that one left behind, kept as the backup.
OlderFile == File("yaml", Arr(<<Obj(<<<<"a", Str(<<"o", "l", "d", "e", "r">>)>>>>)>>))

\* YAML.stringify(data, yamlOptions): the library's rendering of `data`.
YAMLstringify(data) == File("yaml", data)

Paths == {OutputPath(n) : n \in Names}

\* ---------------------------------------------------------------- results
\* results[sheetName]; `set` is false while the key is still missing. A
\* failure carries no count (count is -1 there).
NoResult == [set |-> FALSE, success |-> FALSE, count |-> -1, error |-> NoError]

\* Fault: the count taken as 1 whatever the data.
SyncSuccessCountsOne(normalizedData) ==
  [set |-> TRUE, success |-> TRUE, count |-> 1, error |-> NoError]

\* syncSheet's return value on the normal path
SyncSuccess(normalizedData) ==
  [set |-> TRUE, success |-> TRUE,
   count |-> IF IsArray(normalizedData) THEN Len(normalizedData.a) ELSE 1,
   error |-> NoError]

\* Fault: the catch block reporting the sheet as synced with no records.
SyncFailureAsSuccess(error) ==
  [set |-> TRUE, success |-> TRUE, count |-> 0, error |-> error]

\* syncSheet's return value from its catch block
SyncFailure(error) ==
  [set |-> TRUE, success |-> FALSE, count |-> -1, error |-> error]

\* ---------------------------------------------------------------- requests
\* The GET that fetchJson has in flight: phase "none", "sent" (waiting for
\* the response callback), "body" (data / end handlers registered) or
\* "ended" (the body was parsed and the promise resolved).
Request(phase, url, hops) ==
  [phase |-> phase, url |-> url,
   protocol |-> IF StartsWith(url, "https") THEN "https" ELSE "http",
   hops |-> hops]
NoRequest == [phase |-> "none", url |-> <<>>, protocol |-> "", hops |-> 0]

\* Redirect hops one fetch may be led through in the model.
MaxHops == 2

\* ----------------------------------------------------------------- state
VARIABLES
  argv,            \* process.argv[2], NoArg when absent
  config,          \* the parsed sheets-config.json
  pc,              \* main: "start", "preflight", "loop", "summary", "exited";
                   \*       "off" under SpecNorm
  sheetsToSync,    \* main: the ordered entries <<name, sheetConfig>>
  idx,             \* main: position of the sync loop in sheetsToSync
  stage,           \* per sheet: "pending", "fetching", "normalizing",
                   \*            "validating", "writing", "done", "failed"
  req,             \* fetchJson: the request in flight
  data,            \* fetchJson: the body accumulated so far
  wire,            \* the chunks the response has yet to deliver
  rawData,         \* syncSheet: what fetchSheetData returned
  normalizedData,  \* syncSheet: normalizeData(rawData)
  results,         \* main: results[sheetName]
  totals,          \* main: totalSuccess, totalFailed, totalRecords
  files,           \* filesystem: content of each output path
  backups,         \* filesystem: content of each <path>.backup
  fsLog,           \* the <<path, operation>> pairs that changed the filesystem
  fetched,         \* the sheets for which a GET has been issued
  status,          \* per sheet: statusCode of the last response, 0 if none
  settled,         \* per sheet: resolve / reject calls on its fetchJson promise
  log,             \* which of the console messages have been printed
  exitCode,        \* process exit code, -1 while running
  arg,       \* SpecNorm: the JSON value handed to the pure functions
  once,      \* SpecNorm: normalizeData(arg)
  twice,     \* SpecNorm: normalizeData(normalizeData(arg))
  arms,      \* SpecNorm: the per-value arms taken while computing `once`
  verdict,   \* SpecNorm: outcome of the validateData call
  syncResult,   \* SpecNorm: what syncSheet returns after normalize + validate
  step,      \* SpecNorm: "input", "normalized", "renormalized", "validated",
             \*           "checked"; "off" under Spec
  targetFolder,    \* download-images main: process.argv[2], NoArg when absent
  images,          \* config.images: the ordered entries <<name, folderConfig>>
  apiKey,          \* whether process.env.GOOGLE_API_KEY is set
  ipc,             \* download-images main: "start", "loop", "summary",
                   \*   "exited"; "off" under the other specifications
  foldersToSync,   \* download-images main: the entries to sync
  fidx,            \* position of the folder loop in foldersToSync
  fpos,            \* inside syncFolder: "enter", "list", "download",
                   \*   "optimize"
  driveFiles,      \* syncDriveFolder: files.length, what listDriveFiles gave
  fileNo,          \* position of the file loop in this folder's files
  downloaded,      \* the file loop's counter of the current folder
  failed,          \* the file loop's counter of the current folder
  attempts,        \* per folder and file: the downloads started
  fileLog,         \* per folder: <<file, event>> pairs, what was logged
  folderResults,   \* download-images main: results[folderName]
  imageTotals,     \* totalSuccess, totalFailed, totalImages
  imageLog,        \* which of main's console messages have been printed
  imageExit,       \* process exit code of download-images, -1 while running
  now,             \* webhook-trigger: Date.now() of the clock, in ms
  lastTriggerTime, \* webhook-trigger: the script's global
  loaded,          \* webhook-trigger: a script execution is under way
  tokenSet,        \* GITHUB_TOKEN and REPO_OWNER hold real values
  hpc,             \* webhook-trigger: "idle", "edit", "post"; "off" elsewhere
  calls,           \* debouncedOnEdit calls so far: <<time, "through"|"skipped">>
  posts,           \* the times at which UrlFetchApp.fetch issued a POST
  hookLog          \* Logger.log lines

normVars == <<arg, once, twice, arms, verdict, syncResult, step>>

syncVars ==
  <<argv, config, pc, sheetsToSync, idx, stage, req, data, wire, rawData,
    normalizedData, results, totals, files, backups, fsLog, fetched, status,
    settled, log, exitCode>>

imageVars ==
  <<targetFolder, images, apiKey, ipc, foldersToSync, fidx, fpos, driveFiles,
    fileNo, downloaded, failed, attempts, fileLog, folderResults, imageTotals,
    imageLog, imageExit>>

hookVars ==
  <<now, lastTriggerTime, loaded, tokenSet, hpc, calls, posts, hookLog>>

vars == <<normVars, syncVars, imageVars, hookVars>>

NoVerdict == [threw |-> FALSE, warned |-> FALSE, error |-> NoError]

NoTotals == [success |-> 0, failed |-> 0, records |-> 0]

\* The pure-function variables while the orchestrator runs.
NormOff ==
  /\ arg = Null
  /\ once = Null
  /\ twice = Null
  /\ arms = {}
  /\ verdict = NoVerdict
  /\ syncResult = NoResult
  /\ step = "off"

\* ------------------------------------------- download-images.js: values
MaxFiles == 2

FolderNames == <<"board_photos", "event_photos">>
Folders == {FolderNames[i] : i \in 1..Len(FolderNames)}
FolderArgs == Folders \cup {"newsletter", NoArg}

\* config.images[name]: method ("" when the key is missing) and the length
\* of imageUrls; NoFolder is what indexing a missing key yields.
FolderConfig(method, urls) == [defined |-> TRUE, method |-> method, urls |-> urls]
NoFolder == [defined |-> FALSE, method |-> "", urls |-> 0]
FolderConfigs ==
  {FolderConfig(m, 0) : m \in {"", "drive", "ftp"}}
    \cup {FolderConfig("urls", k) : k \in 0..MaxFiles}
ImageConfigs ==
  {<<>>} \cup {<< <<FolderNames[1], c>> >> : c \in FolderConfigs}
         \cup {<< <<FolderNames[1], c>>, <<FolderNames[2], d>> >> :
                 c \in FolderConfigs, d \in FolderConfigs}

\* results[folderName]; `set` is false while the key is missing, count and
\* failed are -1 where the returned object has no such key.
NoFolderResult ==
  [set |-> FALSE, success |-> FALSE, count |-> -1, failed |-> -1, error |-> ""]
FolderFailure(message) ==
  [set |-> TRUE, success |-> FALSE, count |-> -1, failed |-> -1,
   error |-> message]
NothingToDownload ==
  [set |-> TRUE, success |-> TRUE, count |-> 0, failed |-> -1, error |-> ""]

\* return { success: failed === 0, count: downloaded, failed }
FolderDone(count, failedCount) ==
  [set |-> TRUE, success |-> failedCount = 0, count |-> count,
   failed |-> failedCount, error |-> ""]

NoImageTotals == [success |-> 0, failed |-> 0, images |-> 0]

\* download-images.js before its main has done anything.
ImagesFresh ==
  /\ foldersToSync = <<>>
  /\ fidx = 0
  /\ fpos = "enter"
  /\ driveFiles = 0
  /\ fileNo = 0
  /\ downloaded = 0
  /\ failed = 0
  /\ attempts = [f \in Folders |-> [k \in 1..MaxFiles |-> 0]]
  /\ fileLog = {}
  /\ folderResults = [f \in Folders \cup {"newsletter"} |-> NoFolderResult]
  /\ imageTotals = NoImageTotals
  /\ imageLog = {}
  /\ imageExit = -1

\* The image-sync variables while another program runs.
ImagesOff ==
  /\ targetFolder = NoArg
  /\ images = <<>>
  /\ apiKey = FALSE
  /\ ipc = "off"
  /\ ImagesFresh

\* The webhook script's variables while another program runs.
HookOff ==
  /\ now = 0
  /\ lastTriggerTime = 0
  /\ loaded = FALSE
  /\ tokenSet = FALSE
  /\ hpc = "off"
  /\ calls = <<>>
  /\ posts = <<>>
  /\ hookLog = {}

\* The orchestrator's variables before main has done anything.
SyncFresh ==
  /\ sheetsToSync = <<>>
  /\ idx = 0
  /\ stage = [n \in Names |-> "pending"]
  /\ req = NoRequest
  /\ data = <<>>
  /\ wire = <<>>
  /\ rawData = Null
  /\ normalizedData = Null
  /\ results = [n \in Names |-> NoResult]
  /\ totals = NoTotals
  /\ fsLog = {}
  /\ fetched = {}
  /\ status = [n \in Names |-> 0]
  /\ settled = [n \in Names |-> 0]
  /\ log = {}
  /\ exitCode = -1

\* ------------------------------------------------------------------ main
Init ==
  /\ argv \in Args
  /\ config \in Configs
  /\ pc = "start"
  /\ \E disk \in { <<NoFile, NoFile>>, <<OldFile, NoFile>>,
                    <<OldFile, OlderFile>> } :
       /\ files = [p \in Paths |-> disk[1]]
       /\ backups = [p \in Paths |-> disk[2]]
  /\ SyncFresh
  /\ NormOff
  /\ ImagesOff
  /\ HookOff

\* const sheetsToSync = targetSheet ? { [targetSheet]: config.sheets[targetSheet] }
\*                                  : config.sheets
ResolveSheets(cfg, targetSheet) ==
  IF targetSheet # NoArg
  THEN << <<targetSheet, Index(cfg.sheets, targetSheet)>> >>
  ELSE cfg.sheets

\* process.exit(code), having printed `message`
Exit(code, message) ==
  /\ exitCode' = code
  /\ log' = log \cup message
  /\ pc' = "exited"

\* main, from its start to the "not found" check
Resolve ==
  /\ pc = "start"
  /\ sheetsToSync' = ResolveSheets(config, argv)
  /\ IF Len(sheetsToSync') = 0
     THEN Exit(1, {"Sheet not found in config"})
     ELSE pc' = "preflight" /\ UNCHANGED <<exitCode, log>>
  /\ UNCHANGED <<argv, config, idx, stage, req, data, wire, rawData,
                 normalizedData, results, totals, files, backups, fsLog,
                 fetched, status, settled,
                 normVars, imageVars, hookVars>>

\* !sheetConfig.jsonUrl || sheetConfig.jsonUrl.includes('YOUR_')
UrlNotConfigured(sheetConfig) ==
  ~Truthy(sheetConfig.jsonUrl) \/ Includes(sheetConfig.jsonUrl, "YOUR_")

\* Fault: the URL check made for the first entry only.
FirstStopFirstOnly(sheets) ==
  IF Len(sheets) > 0
     /\ (~sheets[1][2].defined \/ UrlNotConfigured(sheets[1][2]))
  THEN 1 ELSE 0

\* The first entry at which the "Validate URLs are configured" loop stops:
\* reading .jsonUrl of undefined throws, an unconfigured URL exits. 0: none.
FirstStop(sheets) ==
  LET stops == {i \in 1..Len(sheets) :
                  ~sheets[i][2].defined \/ UrlNotConfigured(sheets[i][2])}
  IN  IF stops = {} THEN 0 ELSE CHOOSE i \in stops : \A j \in stops : i <= j

\* The "Validate URLs are configured" loop; a TypeError thrown in it rejects
\* main(), whose catch handler prints "Unexpected error" and exits with 1.
Preflight ==
  /\ pc = "preflight"
  /\ LET stop == FirstStop(sheetsToSync)
     IN  IF stop = 0
         THEN pc' = "loop" /\ idx' = 1 /\ UNCHANGED <<exitCode, log>>
         ELSE /\ IF ~sheetsToSync[stop][2].defined
                 THEN Exit(1, {"Unexpected error"})
                 ELSE Exit(1, {"JSON URL not configured"})
              /\ UNCHANGED idx
  /\ UNCHANGED <<argv, config, sheetsToSync, stage, req, data, wire, rawData,
                 normalizedData, results, totals, files, backups, fsLog,
                 fetched, status, settled,
                 normVars, imageVars, hookVars>>

\* The sheet the sync loop is at, and its configuration.
Cur == sheetsToSync[idx][1]
CurConfig == sheetsToSync[idx][2]

InLoop == pc = "loop" /\ idx \in 1..Len(sheetsToSync)

\* syncSheet's catch block: the error becomes this sheet's result.
Fail(error) ==
  /\ results' = [results EXCEPT ![Cur] = SyncFailure(error)]
  /\ stage' = [stage EXCEPT ![Cur] = "failed"]
  /\ req' = NoRequest
  /\ data' = <<>>
  /\ wire' = <<>>

\* resolve(json) or reject(error) is called on the promise fetchSheetData
\* awaits.
Settle == settled' = [settled EXCEPT ![Cur] = @ + 1]

\* Fault: every selected sheet's fetch issued at once.
StartSyncAll ==
  /\ InLoop
  /\ stage[Cur] = "pending"
  /\ stage' = [n \in Names |->
                 IF /\ \E i \in 1..Len(sheetsToSync) : sheetsToSync[i][1] = n
                    /\ stage[n] = "pending"
                 THEN "fetching" ELSE stage[n]]
  /\ req' = Request("sent", CurConfig.jsonUrl, 0)
  /\ fetched' = fetched \cup
                  {sheetsToSync[i][1] : i \in 1..Len(sheetsToSync)}
  /\ UNCHANGED <<argv, config, pc, sheetsToSync, idx, data, wire, rawData,
                 normalizedData, results, totals, files, backups, fsLog, log,
                 exitCode, status, settled, normVars, imageVars, hookVars>>

\* syncSheet -> fetchSheetData -> fetchJson(sheetConfig.jsonUrl): the GET
\* is issued.
StartSync ==
  /\ InLoop
  /\ stage[Cur] = "pending"
  /\ stage' = [stage EXCEPT ![Cur] = "fetching"]
  /\ req' = Request("sent", CurConfig.jsonUrl, 0)
  /\ fetched' = fetched \cup {Cur}
  /\ UNCHANGED <<argv, config, pc, sheetsToSync, idx, data, wire, rawData,
                 normalizedData, results, totals, files, backups, fsLog, log,
                 exitCode, status, settled,
                 normVars, imageVars, hookVars>>

\* Fault: the output file cleared when the request fails.
RequestErrorClearsFile ==
  /\ InLoop
  /\ req.phase = "sent"
  /\ Fail(Error("connect ECONNREFUSED", "", 0))
  /\ Settle
  /\ files' = [files EXCEPT ![CurConfig.outputPath] = Truncated]
  /\ UNCHANGED <<argv, config, pc, sheetsToSync, idx, rawData, normalizedData,
                 totals, backups, fsLog, fetched, log, exitCode, status,
                 normVars, imageVars, hookVars>>

\* .on('error', reject)
RequestError ==
  /\ InLoop
  /\ req.phase = "sent"
  /\ Fail(Error("connect ECONNREFUSED", "", 0))
  /\ Settle
  /\ UNCHANGED <<argv, config, pc, sheetsToSync, idx, rawData, normalizedData,
                 totals, files, backups, fsLog, fetched, log, exitCode, status,
                 normVars, imageVars, hookVars>>

\* Fault: the redirect answered by requesting the same URL again.
ResponseRedirectSameUrl ==
  /\ InLoop
  /\ req.phase = "sent"
  /\ req.hops < MaxHops
  /\ \E statusCode \in {301, 302} :
       /\ status' = [status EXCEPT ![Cur] = statusCode]
       /\ req' = Request("sent", req.url, req.hops + 1)
  /\ UNCHANGED <<argv, config, pc, sheetsToSync, idx, rawData, normalizedData,
                 totals, files, backups, fsLog, fetched, log, exitCode,
                 results, stage, data, wire, settled, normVars, imageVars, hookVars>>

\* The response callback with statusCode 301 or 302: fetchJson is called
\* with headers.location; without the header, url.startsWith throws in
\* the promise executor and the promise rejects.
ResponseRedirect ==
  /\ InLoop
  /\ req.phase = "sent"
  /\ req.hops < MaxHops
  /\ \E statusCode \in {301, 302}, hasLocation \in BOOLEAN :
       /\ status' = [status EXCEPT ![Cur] = statusCode]
       /\ IF hasLocation
          THEN /\ req' = Request("sent", UrlRedirected, req.hops + 1)
               /\ UNCHANGED <<results, stage, data, wire, settled>>
          ELSE /\ Fail(Error("Cannot read properties of undefined",
                             "startsWith", 0))
               /\ Settle
  /\ UNCHANGED <<argv, config, pc, sheetsToSync, idx, rawData, normalizedData,
                 totals, files, backups, fsLog, fetched, log, exitCode,
                 normVars, imageVars, hookVars>>

\* The response callback with statusCode 301 or 302 whose Location is the
\* URL the chain started from: fetchJson is called with it as with any
\* other, nothing remembers the URLs already requested.
ResponseRedirectBack ==
  /\ InLoop
  /\ req.phase = "sent"
  /\ req.hops >= 1
  /\ \E statusCode \in {301, 302} :
       status' = [status EXCEPT ![Cur] = statusCode]
  /\ req' = Request("sent", CurConfig.jsonUrl, 0)
  /\ UNCHANGED <<argv, config, pc, sheetsToSync, idx, rawData, normalizedData,
                 totals, files, backups, fsLog, fetched, log, exitCode,
                 results, stage, data, wire, settled,
                 normVars, imageVars, hookVars>>

\* response.statusMessage
StatusMessage(statusCode) ==
  CASE statusCode = 404 -> "Not Found"
    [] statusCode = 403 -> "Forbidden"
    [] OTHER -> "Internal Server Error"

\* Fault: the rejection that forgets the status message.
ResponseHttpErrorNoMessage ==
  /\ InLoop
  /\ req.phase = "sent"
  /\ \E statusCode \in {404, 500} :
       /\ status' = [status EXCEPT ![Cur] = statusCode]
       /\ Fail(Error("HTTP", "", statusCode))
  /\ Settle
  /\ UNCHANGED <<argv, config, pc, sheetsToSync, idx, rawData, normalizedData,
                 totals, files, backups, fsLog, fetched, log, exitCode,
                 normVars, imageVars, hookVars>>

\* The response callback with any other status than 200, 301, 302
ResponseHttpError ==
  /\ InLoop
  /\ req.phase = "sent"
  /\ \E statusCode \in {404, 500} :
       /\ status' = [status EXCEPT ![Cur] = statusCode]
       /\ Fail(Error("HTTP", StatusMessage(statusCode), statusCode))
  /\ Settle
  /\ UNCHANGED <<argv, config, pc, sheetsToSync, idx, rawData, normalizedData,
                 totals, files, backups, fsLog, fetched, log, exitCode,
                 normVars, imageVars, hookVars>>

\* The response callback with statusCode 200: data = '' and the handlers
\* are registered.
ResponseOk ==
  /\ InLoop
  /\ req.phase = "sent"
  /\ status' = [status EXCEPT ![Cur] = 200]
  /\ req' = [req EXCEPT !.phase = "body"]
  /\ data' = <<>>
  /\ wire' \in Bodies
  /\ UNCHANGED <<argv, config, pc, sheetsToSync, idx, stage, rawData,
                 normalizedData, results, totals, files, backups, fsLog,
                 fetched, log, exitCode, settled,
                 normVars, imageVars, hookVars>>

\* response.on('data', chunk => data += chunk)
OnData ==
  /\ InLoop
  /\ req.phase = "body"
  /\ wire # <<>>
  /\ data' = Append(data, Head(wire))
  /\ wire' = Tail(wire)
  /\ UNCHANGED <<argv, config, pc, sheetsToSync, idx, stage, req, rawData,
                 normalizedData, results, totals, files, backups, fsLog,
                 fetched, log, exitCode, status, settled,
                 normVars, imageVars, hookVars>>

\* Fault: only the empty array replaced, `!data` forgotten.
SheetDataEmptyArrayOnly(json) ==
  IF IsArray(json) /\ Len(json.a) = 0 THEN Arr(<<>>) ELSE json

\* What fetchSheetData returns for the value fetchJson resolved with.
SheetData(json) ==
  IF Falsy(json) \/ (IsArray(json) /\ Len(json.a) = 0) THEN Arr(<<>>) ELSE json

\* response.on('end', ...): JSON.parse(data) resolves or rejects the
\* promise; fetchSheetData returns or rethrows.
OnEnd ==
  /\ InLoop
  /\ req.phase = "body"
  /\ wire = <<>>
  /\ LET parsed == JSONparse(data)
     IN  IF parsed.ok
         THEN /\ rawData' = SheetData(parsed.value)
              /\ stage' = [stage EXCEPT ![Cur] = "normalizing"]
              /\ req' = [req EXCEPT !.phase = "ended"]
              /\ UNCHANGED <<results, wire, data>>
         ELSE /\ Fail(Error("Invalid JSON", parsed.error.kind, 0))
              /\ UNCHANGED rawData
  /\ Settle
  /\ UNCHANGED <<argv, config, pc, sheetsToSync, idx, normalizedData, totals,
                 files, backups, fsLog, fetched, log, exitCode, status, normVars, imageVars, hookVars>>


\* const normalizedData = normalizeData(rawData)
Normalize ==
  /\ InLoop
  /\ stage[Cur] = "normalizing"
  /\ normalizedData' = normalizeData(rawData)
  /\ stage' = [stage EXCEPT ![Cur] =
                 IF config.options.validateData THEN "validating" ELSE "writing"]
  /\ UNCHANGED <<argv, config, pc, sheetsToSync, idx, req, data, wire, rawData,
                 results, totals, files, backups, fsLog, fetched, log,
                 exitCode, status, settled,
                 normVars, imageVars, hookVars>>

\* Fault: the validation error logged but not thrown.
ValidateContinues ==
  /\ InLoop
  /\ stage[Cur] = "validating"
  /\ stage' = [stage EXCEPT ![Cur] = "writing"]
  /\ UNCHANGED <<argv, config, pc, sheetsToSync, idx, rawData, normalizedData,
                 totals, files, backups, fsLog, fetched, log, exitCode, status,
                 settled, results, req, data, wire, normVars, imageVars, hookVars>>

\* if (config.options?.validateData) validateData(sheetName, normalizedData)
Validate ==
  /\ InLoop
  /\ stage[Cur] = "validating"
  /\ LET outcome == validateData(Cur, normalizedData)
     IN  IF outcome.threw
         THEN Fail(outcome.error)
         ELSE /\ stage' = [stage EXCEPT ![Cur] = "writing"]
              /\ UNCHANGED <<results, req, data, wire>>
  /\ UNCHANGED <<argv, config, pc, sheetsToSync, idx, rawData, normalizedData,
                 totals, files, backups, fsLog, fetched, log, exitCode, status, settled,
                 normVars, imageVars, hookVars>>

\* Fault: the backup taken whatever the option says.
BackupWantedAlways(path) == files[path].kind # "absent"

\* fs.existsSync(fullPath) && config.options?.backupBeforeSync
BackupWanted(path) ==
  files[path].kind # "absent" /\ config.options.backupBeforeSync

\* fs.copyFileSync(fullPath, `${fullPath}.backup`) where the backup is wanted
Backup(path) ==
  /\ backups' = IF BackupWanted(path)
                THEN [backups EXCEPT ![path] = files[path]]
                ELSE backups

BackupLog(path) == IF BackupWanted(path) THEN {<<path, "copyFile">>} ELSE {}

\* writeYamlFile runs to its end and syncSheet returns the success result.
WriteOk ==
  /\ InLoop
  /\ stage[Cur] = "writing"
  /\ LET path == CurConfig.outputPath
     IN  /\ Backup(path)
         /\ files' = [files EXCEPT ![path] = YAMLstringify(normalizedData)]
         /\ fsLog' = fsLog \cup BackupLog(path) \cup {<<path, "writeFile">>}
  /\ results' = [results EXCEPT ![Cur] = SyncSuccess(normalizedData)]
  /\ stage' = [stage EXCEPT ![Cur] = "done"]
  /\ UNCHANGED <<argv, config, pc, sheetsToSync, idx, req, data, wire, rawData,
                 normalizedData, totals, fetched, log, exitCode, status, settled,
                 normVars, imageVars, hookVars>>

\* A filesystem call of writeYamlFile throws: mkdirSync (only tried when
\* the directory, hence the file, is missing), copyFileSync (only tried
\* when the backup is wanted), or writeFileSync, before it opened the file
\* or after it emptied it. writeYamlFile rethrows, syncSheet catches.
WriteFails ==
  /\ InLoop
  /\ stage[Cur] = "writing"
  /\ LET path == CurConfig.outputPath
     IN  \E call \in {"mkdir", "copyfile", "open", "write"} :
           /\ call = "mkdir" => files[path].kind = "absent"
           /\ call = "copyfile" => BackupWanted(path)
           /\ IF call \in {"open", "write"}
              THEN Backup(path)
              ELSE UNCHANGED backups
           /\ files' = IF call = "write"
                       THEN [files EXCEPT ![path] = Truncated]
                       ELSE files
           /\ fsLog' = fsLog
                \cup (IF call \in {"open", "write"} THEN BackupLog(path) ELSE {})
                \cup (IF call = "write" THEN {<<path, "writeFile">>} ELSE {})
           /\ Fail(Error("EACCES: permission denied", call, 0))
  /\ UNCHANGED <<argv, config, pc, sheetsToSync, idx, rawData, normalizedData,
                 totals, fetched, log, exitCode, status, settled,
                 normVars, imageVars, hookVars>>

\* Fault: a failed sheet is synced again instead of being left behind.
AdvanceRetriesFailed ==
  /\ InLoop
  /\ stage[Cur] \in {"done", "failed"}
  /\ IF stage[Cur] = "failed"
     THEN /\ stage' = [stage EXCEPT ![Cur] = "pending"]
          /\ results' = [results EXCEPT ![Cur] = NoResult]
          /\ settled' = [settled EXCEPT ![Cur] = 0]
          /\ status' = [status EXCEPT ![Cur] = 0]
          /\ UNCHANGED <<idx, pc>>
     ELSE /\ idx' = idx + 1
          /\ pc' = IF idx + 1 > Len(sheetsToSync) THEN "summary" ELSE "loop"
          /\ UNCHANGED <<stage, results, settled, status>>
  /\ rawData' = Null
  /\ normalizedData' = Null
  /\ req' = NoRequest
  /\ data' = <<>>
  /\ UNCHANGED <<argv, config, sheetsToSync, wire, totals, files, backups,
                 fsLog, fetched, log, exitCode, normVars, imageVars, hookVars>>

\* results[sheetName] = await syncSheet(...) has been assigned: the for
\* loop moves to the next entry, or ends.
Advance ==
  /\ InLoop
  /\ stage[Cur] \in {"done", "failed"}
  /\ idx' = idx + 1
  /\ pc' = IF idx + 1 > Len(sheetsToSync) THEN "summary" ELSE "loop"
  /\ rawData' = Null
  /\ normalizedData' = Null
  /\ req' = NoRequest
  /\ data' = <<>>
  /\ UNCHANGED <<argv, config, sheetsToSync, stage, wire, results,
                 totals, files, backups, fsLog, fetched, log, exitCode, status, settled,
                 normVars, imageVars, hookVars>>

\* Fault: the record count added for failed sheets too.
RECURSIVE TallyCountsAll(_, _, _)
TallyCountsAll(sheets, res, k) ==
  IF k = 0 THEN NoTotals
  ELSE LET before == TallyCountsAll(sheets, res, k - 1)
           result == res[sheets[k][1]]
       IN  IF result.success
           THEN [before EXCEPT !.success = @ + 1, !.records = @ + result.count]
           ELSE [before EXCEPT !.failed = @ + 1, !.records = @ + result.count]

\* The summary loop over Object.entries(results), entries 1..k of the
\* selection: totalSuccess, totalFailed, totalRecords.
RECURSIVE Tally(_, _, _)
Tally(sheets, res, k) ==
  IF k = 0 THEN NoTotals
  ELSE LET before == Tally(sheets, res, k - 1)
           result == res[sheets[k][1]]
       IN  IF result.success
           THEN [before EXCEPT !.success = @ + 1, !.records = @ + result.count]
           ELSE [before EXCEPT !.failed = @ + 1]

\* Fault: a single failure tolerated.
ExitStatusOffByOne(totalFailed) == IF totalFailed > 1 THEN 1 ELSE 0

\* if (totalFailed > 0) process.exit(1); ... process.exit(0)
ExitStatus(totalFailed) == IF totalFailed > 0 THEN 1 ELSE 0

\* Fault: the summary printed only when nothing failed.
SummaryOnlyOnSuccess ==
  /\ pc = "summary"
  /\ totals' = Tally(sheetsToSync, results, Len(sheetsToSync))
  /\ Exit(ExitStatus(totals'.failed),
          IF totals'.failed > 0
          THEN {}
          ELSE {"Sync Summary", "Sync completed successfully"})
  /\ UNCHANGED <<argv, config, sheetsToSync, idx, stage, req, data, wire,
                 rawData, normalizedData, results, files, backups, fsLog,
                 fetched, status, settled, normVars, imageVars, hookVars>>

\* "Print summary" to the end of main
Summary ==
  /\ pc = "summary"
  /\ totals' = Tally(sheetsToSync, results, Len(sheetsToSync))
  /\ Exit(ExitStatus(totals'.failed),
          {"Sync Summary"} \cup
            (IF totals'.failed > 0 THEN {} ELSE {"Sync completed successfully"}))
  /\ UNCHANGED <<argv, config, sheetsToSync, idx, stage, req, data, wire,
                 rawData, normalizedData, results, files, backups, fsLog,
                 fetched, status, settled,
                 normVars, imageVars, hookVars>>

Next ==
  \/ Resolve \/ Preflight \/ StartSync
  \/ RequestError \/ ResponseRedirect \/ ResponseRedirectBack
  \/ ResponseHttpError \/ ResponseOk
  \/ OnData \/ OnEnd
  \/ Normalize \/ Validate \/ WriteOk \/ WriteFails
  \/ Advance \/ Summary

Spec == Init /\ [][Next]_vars

\* The configurations of one installation: validation and backups
\* enabled, the sheets all configured or the last one left with its
\* placeholder.
LiveConfigs ==
  {c \in Configs :
     /\ c.options.validateData /\ c.options.backupBeforeSync
     /\ Len(c.sheets) = Len(SheetNames)
     /\ \A i \in 1..(Len(SheetNames) - 1) : ~UrlNotConfigured(c.sheets[i][2])}

\* A run of that installation over the files and backups of earlier runs.
InitLive ==
  /\ Init
  /\ config \in LiveConfigs
  /\ files = [p \in Paths |-> OldFile]
  /\ backups = [p \in Paths |-> OlderFile]

\* The event loop runs whatever is ready, and every request in flight gets
\* some response or error in the end: a step of main is eventually taken
\* while one is possible. Nothing is assumed about which response comes.
SpecLive == InitLive /\ [][Next]_vars /\ WF_vars(Next)

\* The orchestrator's variables while the pure functions are exercised.
SyncOff ==
  /\ argv = NoArg
  /\ config = [sheets |-> <<>>,
               options |-> [validateData |-> TRUE, backupBeforeSync |-> TRUE]]
  /\ pc = "off"
  /\ files = [p \in Paths |-> NoFile]
  /\ backups = [p \in Paths |-> NoFile]
  /\ SyncFresh

\* ------------------------------------------------------- SpecNorm: steps
InitNorm ==
  /\ arg \in JsonValues
  /\ once = Null
  /\ twice = Null
  /\ arms = {}
  /\ verdict = NoVerdict
  /\ syncResult = NoResult
  /\ step = "input"
  /\ SyncOff
  /\ ImagesOff
  /\ HookOff

\* normalizedData = normalizeData(rawData)
NormalizeOnce ==
  /\ step = "input"
  /\ once' = normalizeData(arg)
  /\ arms' = BranchesTaken(arg)
  /\ step' = "normalized"
  /\ UNCHANGED <<arg, twice, verdict, syncResult, syncVars, imageVars, hookVars>>

\* normalizeData applied to its own output
NormalizeAgain ==
  /\ step = "normalized"
  /\ twice' = normalizeData(once)
  /\ step' = "renormalized"
  /\ UNCHANGED <<arg, once, arms, verdict, syncResult, syncVars, imageVars, hookVars>>

\* validateData(sheetName, arg) on the value as given
ValidateRaw ==
  /\ step = "input"
  /\ \E name \in Names : verdict' = validateData(name, arg)
  /\ step' = "validated"
  /\ UNCHANGED <<arg, once, twice, arms, syncResult, syncVars, imageVars, hookVars>>

\* validateData(sheetName, normalizedData), as syncSheet calls it, and the
\* result syncSheet then returns (the write left aside): the catch block's
\* on a throw, the success result otherwise.
ValidateNormalized ==
  /\ step = "normalized"
  /\ \E name \in Names : verdict' = validateData(name, once)
  /\ syncResult' = IF verdict'.threw
                THEN SyncFailure(verdict'.error)
                ELSE SyncSuccess(once)
  /\ step' = "checked"
  /\ UNCHANGED <<arg, once, twice, arms, syncVars, imageVars, hookVars>>

NextNorm == NormalizeOnce \/ NormalizeAgain \/ ValidateRaw \/ ValidateNormalized

SpecNorm == InitNorm /\ [][NextNorm]_vars

\* =================================================================== claims
\* The names and output paths of the sheets main selected.
Selected == {sheetsToSync[i][1] : i \in 1..Len(sheetsToSync)}
PathOf(name) == Index(sheetsToSync, name).outputPath
\* main has entered the "Sync each sheet" loop in this run.
ReachedLoop == idx >= 1
Failed(n) == results[n].set /\ ~results[n].success
Succeeded(n) == results[n].set /\ results[n].success

\* C1: once a run that reached the per-source loop has exited, the exit
\* code is 1 exactly when some selected source has success=false and 0
\* otherwise, and every source that succeeded has its output file written
\* (a YAML document holding as many records as the result counts), also
\* when the exit code is 1.
C1_ExitCodeIffSomeSourceFailed ==
  (pc = "exited" /\ ReachedLoop) =>
     /\ exitCode \in {0, 1}
     /\ (exitCode = 1) <=> (\E n \in Selected : Failed(n))
     /\ \A n \in Selected :
          Succeeded(n) =>
            /\ <<PathOf(n), "writeFile">> \in fsLog
            /\ files[PathOf(n)].kind = "yaml"
            /\ files[PathOf(n)] # OldFile
            /\ results[n].count =
                 (IF IsArray(files[PathOf(n)].doc)
                  THEN Len(files[PathOf(n)].doc.a) ELSE 1)

\* A partial success: exit code 1 with one source written and one failed.
C1_Witness ==
  /\ pc = "exited"
  /\ ReachedLoop
  /\ exitCode = 1
  /\ \E n, m \in Selected :
       /\ Succeeded(n) /\ files[PathOf(n)] # OldFile
       /\ Failed(m)

\* C2: a source that failed in any stage has a result with success=false;
\* the loop is left only with every selected source fetched and given a
\* result, and the process exits only through the summary; a source whose
\* response was HTTP 404 has the error "HTTP 404: Not Found", and the run
\* then exits with code 1.
C2_FailureStaysInsideSyncSheet ==
  /\ \A n \in Names : stage[n] = "failed" => Failed(n)
  /\ (ReachedLoop /\ pc \in {"summary", "exited"}) =>
       \A n \in Selected :
          n \in fetched /\ results[n].set /\ stage[n] \in {"done", "failed"}
  /\ (ReachedLoop /\ pc = "exited") => "Sync Summary" \in log
  /\ \A n \in Names :
       status[n] = 404 =>
          /\ stage[n] = "failed"
          /\ results[n] = [set |-> TRUE, success |-> FALSE, count |-> -1,
                           error |-> Error("HTTP", "Not Found", 404)]
          /\ (pc = "exited" => exitCode = 1)

\* The first source answered 404 and a later one was still synced.
C2_Witness ==
  /\ pc = "exited"
  /\ exitCode = 1
  /\ Len(sheetsToSync) = 3
  /\ status[sheetsToSync[1][1]] = 404
  /\ stage[sheetsToSync[2][1]] = "failed"
  /\ results[sheetsToSync[2][1]].error.kind = "invalid items"
  /\ Succeeded(sheetsToSync[3][1])

\* A source of the run's selection whose URL is empty or holds 'YOUR_'.
BadUrl(url) == url = <<>> \/ \E i \in 1..Len(url) : url[i] = "YOUR_"
SelectionHasBadUrl ==
  \E n \in (IF argv = NoArg THEN KeysOf(config.sheets) ELSE {argv} \cap KeysOf(config.sheets)) :
     BadUrl(Index(config.sheets, n).jsonUrl)

\* C3: when a selected source has an empty or placeholder URL, the run never
\* issues a fetch, never writes an output or backup file, never enters the
\* sync loop, and exits with code 1 -- wherever the bad source stands in
\* the configuration order.
C3_PreflightAllOrNothing ==
  SelectionHasBadUrl =>
     /\ fetched = {}
     /\ fsLog = {}
     /\ \A p \in Paths : backups[p] \in {NoFile, OlderFile} /\ files[p] \in {NoFile, OldFile}
     /\ pc \in {"start", "preflight", "exited"}
     /\ pc = "exited" => (exitCode = 1 /\ "JSON URL not configured" \in log)

\* The run has exited on a bad URL that follows two configured sources.
C3_Witness ==
  /\ pc = "exited"
  /\ exitCode = 1
  /\ argv = NoArg
  /\ Len(config.sheets) = 3
  /\ ~BadUrl(config.sheets[1][2].jsonUrl)
  /\ ~BadUrl(config.sheets[2][2].jsonUrl)
  /\ BadUrl(config.sheets[3][2].jsonUrl)
  /\ fetched = {}

\* C4 (as claimed): with a target name given only that source is processed,
\* and a name that is no key of the configured sources ends the run on the
\* 'Sheet "<name>" not found in config' path, with no fetch and exit code 1.
C4_UnknownTargetReportedNotFound ==
  /\ argv # NoArg => fetched \subseteq {argv}
  /\ (argv # NoArg /\ argv \notin KeysOf(config.sheets) /\ pc = "exited") =>
        /\ "Sheet not found in config" \in log
        /\ fetched = {}
        /\ exitCode = 1

\* C5: normalizing the output of normalizeData again changes nothing.
C5_NormalizeIdempotent ==
  step = "renormalized" => twice = once

\* A mapping with a whitespace-only and a padded string, normalized twice.
C5_Witness ==
  /\ step = "renormalized"
  /\ arg = Obj(<< <<"a", Str(<<" ">>)>>, <<"b", Str(<<" ", "\t", "a">>)>> >>)
  /\ once = Obj(<< <<"a", Str(<<>>)>>, <<"b", Str(<<"a">>)>> >>)

\* No null and no padded string anywhere inside `x`.
RECURSIVE Clean(_)
Clean(x) ==
  CASE x.t = "null" -> FALSE
    [] x.t = "str" ->
         x.s = <<>> \/ (~IsWhitespace(x.s[1]) /\ ~IsWhitespace(x.s[Len(x.s)]))
    [] x.t = "arr" -> \A i \in 1..Len(x.a) : Clean(x.a[i])
    [] x.t = "obj" -> \A i \in 1..Len(x.o) : Clean(x.o[i][2])
    [] OTHER -> TRUE

\* C6 (as claimed): nothing inside normalizeData(x) is null and every
\* string inside it is trimmed, elements of arrays included.
C6_OutputHasNoNullNoPadding ==
  step = "normalized" => Clean(once)

\* trim + toLowerCase of a string is in the boolean vocabulary
BooleanWord(s) == trim(toLowerCase(s)) \in {sTrue, sFalse, sYes, sNo}

\* C7 (as claimed): a mapping field whose string is, trimmed and without
\* case, 'true', 'false', 'yes' or 'no' comes out as the native boolean.
C7_BooleanStringsCoerced ==
  (step = "normalized" /\ arg.t = "obj") =>
     \A i \in 1..Len(arg.o) :
        (arg.o[i][2].t = "str" /\ BooleanWord(arg.o[i][2].s)) =>
           once.o[i][2] = Bool(trim(toLowerCase(arg.o[i][2].s)) \in {sTrue, sYes})

\* The per-value rule of section 4.2, relating a field value to its output.
FieldRule(v, w) ==
  IF v.t = "null" \/ (v.t = "str" /\ v.s = <<>>) THEN w = Str(<<>>)
  ELSE IF v.t = "str" THEN w = Str(trim(v.s))
  ELSE IF v.t \in {"arr", "obj"} THEN w = normalizeData(v)
  ELSE w = v

\* The rule holds of every entry of mapping `x` with output `y`.
EntriesFollowRule(x, y) ==
  /\ y.t = "obj"
  /\ Len(y.o) = Len(x.o)
  /\ \A i \in 1..Len(x.o) : FieldRule(x.o[i][2], y.o[i][2])

C9_StructurePreserved ==
  step = "normalized" =>
     /\ arg.t = "arr" =>
          /\ once.t = "arr"
          /\ Len(once.a) = Len(arg.a)
          /\ \A i \in 1..Len(arg.a) : once.a[i] = normalizeData(arg.a[i])
     /\ arg.t = "obj" =>
          /\ once.t = "obj"
          /\ Len(once.o) = Len(arg.o)
          /\ {once.o[i][1] : i \in 1..Len(once.o)}
               = {arg.o[i][1] : i \in 1..Len(arg.o)}
     /\ arg.t \notin {"arr", "obj"} => once = arg

\* A mapping with an empty field keeps both of its keys.
C9_Witness ==
  /\ step = "normalized"
  /\ arg = Obj(<< <<"b", Null>>, <<"a", Str(<<" ", "a", " ">>)>> >>)
  /\ once = Obj(<< <<"b", Str(<<>>)>>, <<"a", Str(<<"a">>)>> >>)

\* C10: validateData throws "is not an array" for every value that is not
\* an array: object, string, number, boolean, null.
C10_NonArrayRejected ==
  (step = "validated" /\ arg.t # "arr") =>
     /\ verdict.threw
     /\ verdict.error.kind = "is not an array"

\* null, whose typeof is "object", has been rejected.
C10_Witness ==
  /\ step = "validated"
  /\ arg = Null
  /\ verdict.threw
  /\ verdict.error = Error("is not an array", "events", 0)

\* C11 (as claimed): on a non-empty array validateData throws, with the
\* number of offending elements in the message, exactly when some element
\* is not a non-null mapping: a scalar, null, or a nested array.
C11_NonMappingElementsCounted ==
  (step = "validated" /\ arg.t = "arr" /\ Len(arg.a) > 0) =>
     LET offending == {i \in 1..Len(arg.a) : arg.a[i].t # "obj"}
     IN  /\ verdict.threw <=> offending # {}
         /\ verdict.threw =>
              /\ verdict.error.kind = "invalid items"
              /\ verdict.error.num = Cardinality(offending)

C13_EmptyTableIsValid ==
  (InLoop /\ rawData = Arr(<<>>)) =>
     /\ LET outcome == validateData(Cur, normalizeData(rawData))
        IN  ~outcome.threw /\ outcome.warned /\ outcome.error = NoError
     /\ stage[Cur] = "failed" =>
           results[Cur].error.kind = "EACCES: permission denied"
     /\ stage[Cur] = "done" =>
           /\ results[Cur] = [NoResult EXCEPT !.set = TRUE, !.success = TRUE,
                                               !.count = 0]
           /\ files[CurConfig.outputPath] = YAMLstringify(Arr(<<>>))
           /\ <<CurConfig.outputPath, "writeFile">> \in fsLog

\* A source answered [] with validation enabled and an output file already
\* present; its sync ended as a success of 0 records over the old file.
C13_Witness ==
  /\ InLoop
  /\ config.options.validateData
  /\ data = <<"[]">>
  /\ rawData = Arr(<<>>)
  /\ stage[Cur] = "done"
  /\ results[Cur].success /\ results[Cur].count = 0
  /\ files[CurConfig.outputPath] = YAMLstringify(Arr(<<>>))
  /\ files[CurConfig.outputPath] # OldFile

\* C14: a write that returns leaves in '<path>.backup' the content the
\* output file had before the write when backupBeforeSync is enabled and the
\* file existed (whatever backup an earlier run left there is replaced), and
\* leaves the backup slot as it was when the option is disabled or the file
\* did not exist; no other backup slot is touched.
C14_BackupHoldsPriorVersion ==
  [][(InLoop /\ stage[Cur] = "writing" /\ stage'[Cur] = "done") =>
       LET path == CurConfig.outputPath
       IN  /\ files'[path] = YAMLstringify(normalizedData)
           /\ backups'[path] =
                 IF config.options.backupBeforeSync /\ files[path] # NoFile
                 THEN files[path]
                 ELSE backups[path]
           /\ \A other \in Paths \ {path} : backups'[other] = backups[other]
    ]_vars

\* A sync over an existing file returned with backups enabled: the slot that
\* held an earlier run's backup now holds the version just overwritten,
\* while another source's slot still holds the earlier backup.
C14_Witness ==
  /\ InLoop
  /\ stage[Cur] = "done"
  /\ config.options.backupBeforeSync
  /\ backups[CurConfig.outputPath] = OldFile
  /\ files[CurConfig.outputPath] = YAMLstringify(normalizedData)
  /\ files[CurConfig.outputPath] # OldFile
  /\ \E other \in Paths \ {CurConfig.outputPath} : backups[other] = OlderFile

\* C15: while a source is fetched, a 301/302 response carrying a Location
\* header re-issues the request against the Location value, one hop further,
\* without settling the promise; and when the 200 response at the end of the
\* chain, however many hops it took, has delivered a JSON document, the
\* promise resolves, once, with the parsed document of that last body.
C15_RedirectChainResolves ==
  [][InLoop =>
       /\ (/\ req.phase = "sent"
           /\ status'[Cur] \in {301, 302}
           /\ stage'[Cur] = "fetching") =>
             /\ req' \in {Request("sent", UrlRedirected, req.hops + 1),
                         Request("sent", CurConfig.jsonUrl, 0)}
             /\ settled' = settled
             /\ results' = results
       /\ (/\ req.phase = "body"
           /\ wire = <<>>
           /\ \E d \in Documents : d.text = data) =>
             /\ stage'[Cur] = "normalizing"
             /\ settled'[Cur] = 1
             /\ status'[Cur] = 200
             /\ \E d \in Documents :
                  d.text = data /\ rawData' = SheetData(d.value)
    ]_vars

\* After as many redirects as the run follows, the final 200 response
\* delivered [{"a":" 1 "}] in two chunks and the promise resolved with it.
C15_Witness ==
  /\ InLoop
  /\ stage[Cur] = "normalizing"
  /\ req = Request("ended", UrlRedirected, MaxHops)
  /\ status[Cur] = 200
  /\ data = <<"[{\"a\":", "\" 1 \"}]">>
  /\ rawData = Arr(<<Obj(<<<<"a", Str(<<" ", "1", " ">>)>>>>)>>)
  /\ settled[Cur] = 1

\* C16: fetchJson rejects with the HTTP error, carrying the status code and
\* the status message, exactly when the last response's status is none of
\* 200, 301, 302, and then no body handler was ever registered; it rejects
\* with the Invalid JSON error, carrying the parser's message, exactly when
\* the status is 200 and the accumulated body does not parse; and no
\* source's promise is settled more than once.
C16_FetchErrorClassification ==
  [][\A n \in Names :
       LET kind == results[n].error.kind
           kind1 == results'[n].error.kind
       IN  /\ settled'[n] <= 1
           /\ (kind1 = "HTTP") <=> (status'[n] \notin {0, 200, 301, 302})
           /\ (kind1 = "HTTP" /\ kind # "HTTP") =>
                 /\ req.phase = "sent"
                 /\ data = <<>>
                 /\ settled'[n] = 1
                 /\ results'[n] =
                      SyncFailure(Error("HTTP", StatusMessage(status'[n]),
                                        status'[n]))
           /\ (kind1 = "Invalid JSON" /\ kind # "Invalid JSON") =>
                 /\ req.phase = "body"
                 /\ status[n] = 200
                 /\ ~JSONparse(data).ok
                 /\ settled'[n] = 1
                 /\ results'[n].error.subject = JSONparse(data).error.kind
           /\ (/\ InLoop /\ n = Cur
               /\ req.phase = "body" /\ wire = <<>>
               /\ ~JSONparse(data).ok) => kind1 = "Invalid JSON"
    ]_vars

\* One source was answered 404 and failed with "HTTP 404: Not Found";
\* another was answered 200 with an HTML page and failed on the parse.
C16_Witness ==
  /\ results["board"] = SyncFailure(Error("HTTP", "Not Found", 404))
  /\ status["board"] = 404
  /\ results["events"] =
       SyncFailure(Error("Invalid JSON", "Unexpected token", 0))
  /\ status["events"] = 200
  /\ settled["board"] = 1 /\ settled["events"] = 1

\* The place of a stage in the order of syncSheet.
StageRank(st) ==
  CASE st = "pending" -> 0
    [] st = "fetching" -> 1
    [] st = "normalizing" -> 2
    [] st = "validating" -> 3
    [] st = "writing" -> 4
    [] OTHER -> 5

\* C17: a source's stage only ever moves forward along pending, fetching,
\* normalizing, validating (when validation is enabled), writing, done --
\* one stage at a time, so no stage is entered twice -- or to failed, from
\* which, as from done, it never moves again; a stage is entered only when
\* the one before returned, the write stage only after a 200 response was
\* parsed and the enabled validation accepted the data; and a source that
\* failed before the write stage has had no write or backup on its path.
C17_StagesInOrderNoRetry ==
  [][\A n \in Names :
       /\ stage'[n] # stage[n] =>
             /\ stage[n] \notin {"done", "failed"}
             /\ \/ /\ stage'[n] = "failed"
                   /\ stage[n] # "pending"
                   /\ results'[n].set /\ ~results'[n].success
                \/ /\ stage'[n] # "failed"
                   /\ StageRank(stage'[n]) = StageRank(stage[n]) + 1
                \/ /\ stage[n] = "normalizing" /\ stage'[n] = "writing"
                   /\ ~config.options.validateData
             /\ stage'[n] = "validating" => config.options.validateData
             /\ stage'[n] = "writing" =>
                   /\ status[n] = 200
                   /\ settled[n] = 1
                   /\ ~results[n].set
                   /\ config.options.validateData =>
                         ~validateData(n, normalizedData).threw
             /\ stage'[n] = "done" => results'[n].set /\ results'[n].success
       /\ (/\ stage'[n] = "failed"
           /\ results'[n].error.kind # "EACCES: permission denied") =>
             /\ \A call \in {"copyFile", "writeFile"} :
                  <<OutputPath(n), call>> \notin fsLog'
             /\ files'[OutputPath(n)] \in {NoFile, OldFile}
    ]_vars

\* With validation enabled one source went all the way to done while
\* another was stopped by validateData and left its old file untouched.
C17_Witness ==
  /\ config.options.validateData
  /\ \E n \in Names :
       /\ stage[n] = "failed"
       /\ results[n].error.kind \in {"is not an array", "invalid items"}
       /\ files[OutputPath(n)] = OldFile
       /\ <<OutputPath(n), "writeFile">> \notin fsLog
  /\ \E n \in Names : stage[n] = "done" /\ results[n].success

\* C18: sources are processed one after another in the configured order.
\* At every moment at most one source is in a stage other than pending,
\* done, failed, and it is the loop's current one; a request in flight --
\* waiting for a response, following a redirect or receiving the body --
\* belongs to it; and a source has been fetched only if every source
\* before it in the selection is done or failed.
C18_StrictlySequential ==
  /\ Cardinality({n \in Names :
                    stage[n] \notin {"pending", "done", "failed"}}) <= 1
  /\ \A n \in Names :
       stage[n] \notin {"pending", "done", "failed"} => InLoop /\ n = Cur
  /\ req.phase \in {"sent", "body"} => InLoop /\ stage[Cur] = "fetching"
  /\ ~ReachedLoop => fetched = {} /\ \A n \in Names : stage[n] = "pending"
  /\ ReachedLoop =>
       /\ fetched \subseteq Selected
       /\ \A i, j \in 1..Len(sheetsToSync) :
            (/\ i < j
             /\ \/ sheetsToSync[j][1] \in fetched
                \/ stage[sheetsToSync[j][1]] # "pending") =>
               stage[sheetsToSync[i][1]] \in {"done", "failed"}

\* The third source's body is arriving after a redirect; the first two
\* sources are over, one done and one failed.
C18_Witness ==
  /\ InLoop
  /\ idx = 3
  /\ req.phase = "body" /\ req.hops >= 1
  /\ data # <<>> /\ wire # <<>>
  /\ stage[sheetsToSync[1][1]] = "failed"
  /\ stage[sheetsToSync[2][1]] = "done"
  /\ stage[Cur] = "fetching"

\* C19 (as claimed): on every path by which the process exits, the
\* pre-flight configuration error and the unknown target name included, the
\* summary has been printed.
C19_SummaryOnEveryExit ==
  pc = "exited" => "Sync Summary" \in log

\* C19 (amended): the summary is printed before the exit on exactly the
\* paths that entered the per-source loop -- full success, partial failure,
\* every source failed; a run that exits before the loop (unknown target
\* name, URL not configured) exits with code 1, no fetch and no summary.
C19_SummaryOnExitsAfterTheLoop ==
  /\ "Sync Summary" \in log => pc = "exited"
  /\ pc = "exited" =>
       /\ "Sync Summary" \in log <=> ReachedLoop
       /\ ReachedLoop => totals # NoTotals
       /\ ~ReachedLoop => exitCode = 1 /\ fetched = {} /\ totals = NoTotals

\* All three sources failed and the run exited with the summary printed.
C19_Witness ==
  /\ pc = "exited"
  /\ Len(sheetsToSync) = 3
  /\ \A n \in Names : Failed(n)
  /\ "Sync Summary" \in log
  /\ exitCode = 1

\* The sum of count over the sources of S that succeeded.
RECURSIVE RecordsOf(_)
RecordsOf(S) ==
  IF S = {} THEN 0
  ELSE LET n == CHOOSE m \in S : TRUE
       IN  (IF results[n].success THEN results[n].count ELSE 0)
             + RecordsOf(S \ {n})

\* C20: in the summary, totalRecords is the sum of count over exactly the
\* sources whose result is a success, totalFailed is the number of sources
\* whose result is a failure, totalSuccess + totalFailed is the number of
\* selected sources, and every selected source -- and no other -- has a
\* result.
C20_SummaryAggregation ==
  (pc = "exited" /\ ReachedLoop) =>
     /\ \A n \in Names : results[n].set <=> n \in Selected
     /\ totals.success = Cardinality({n \in Selected : Succeeded(n)})
     /\ totals.failed = Cardinality({n \in Selected : Failed(n)})
     /\ totals.success + totals.failed = Len(sheetsToSync)
     /\ Len(sheetsToSync) = Cardinality(Selected)
     /\ totals.records = RecordsOf(Selected)

\* Two sources synced 2 and 1 records, the third failed: 3 records,
\* 2 succeeded, 1 failed.
C20_Witness ==
  /\ pc = "exited"
  /\ Len(sheetsToSync) = 3
  /\ \E n \in Names : Succeeded(n) /\ results[n].count = 2
  /\ \E n \in Names : Succeeded(n) /\ results[n].count = 1
  /\ \E n \in Names : Failed(n)
  /\ totals = [success |-> 2, failed |-> 1, records |-> 3]

\* ================================================== download-images.js
\* config.images[targetFolder]
FolderIndex(folders, name) ==
  IF \E i \in 1..Len(folders) : folders[i][1] = name
  THEN folders[CHOOSE i \in 1..Len(folders) : folders[i][1] = name][2]
  ELSE NoFolder

\* targetFolder ? { [targetFolder]: config.images[targetFolder] }
\*              : config.images
ResolveFolders(folders, target) ==
  IF target # NoArg
  THEN << <<target, FolderIndex(folders, target)>> >>
  ELSE folders

\* main of download-images.js, from its start to the folder loop
ImageResolve ==
  /\ ipc = "start"
  /\ LET selection == ResolveFolders(images, targetFolder)
     IN  IF Len(selection) = 0
         THEN /\ imageExit' = IF targetFolder # NoArg THEN 1 ELSE 0
              /\ imageLog' = imageLog \cup
                   {IF targetFolder # NoArg THEN "not found in config"
                    ELSE "No image folders configured"}
              /\ ipc' = "exited"
              /\ UNCHANGED <<foldersToSync, fidx>>
         ELSE /\ foldersToSync' = selection
              /\ fidx' = 1
              /\ ipc' = "loop"
              /\ UNCHANGED <<imageLog, imageExit>>
  /\ UNCHANGED <<targetFolder, images, apiKey, fpos, driveFiles, fileNo,
                 downloaded, failed, attempts, fileLog, folderResults,
                 imageTotals, normVars, syncVars, hookVars>>

CurFolder == foldersToSync[fidx][1]
CurFolderConfig == foldersToSync[fidx][2]
InFolderLoop == ipc = "loop" /\ fidx \in 1..Len(foldersToSync)

\* const method = folderConfig.method || 'drive'
Method(folderConfig) ==
  IF folderConfig.method = "" THEN "drive" ELSE folderConfig.method

\* files.length / imageUrls.length of the folder being synced
FileCount ==
  IF Method(CurFolderConfig) = "urls" THEN CurFolderConfig.urls ELSE driveFiles

\* results[folderName] = await syncFolder(...) has been assigned and the
\* for loop of main moves on.
FolderReturns(result) ==
  /\ folderResults' = [folderResults EXCEPT ![CurFolder] = result]
  /\ fidx' = fidx + 1
  /\ ipc' = IF fidx + 1 > Len(foldersToSync) THEN "summary" ELSE "loop"
  /\ fpos' = "enter"
  /\ driveFiles' = 0
  /\ fileNo' = 0
  /\ downloaded' = 0
  /\ failed' = 0

\* The file loop starts on the first of the folder's files.
FirstFile(count) ==
  /\ driveFiles' = count
  /\ fpos' = "download"
  /\ fileNo' = 1
  /\ downloaded' = 0
  /\ failed' = 0
  /\ UNCHANGED <<folderResults, fidx, ipc>>

\* syncFolder up to the first await of the method it chose; for the urls
\* method syncImageUrls up to its file loop.
SyncFolder ==
  /\ InFolderLoop
  /\ fpos = "enter"
  /\ IF ~CurFolderConfig.defined
     THEN FolderReturns(FolderFailure("Cannot read properties of undefined"))
     ELSE IF Method(CurFolderConfig) = "drive"
     THEN IF ~apiKey
          THEN FolderReturns(FolderFailure("API key not set"))
          ELSE /\ fpos' = "list"
               /\ UNCHANGED <<folderResults, fidx, ipc, driveFiles, fileNo,
                              downloaded, failed>>
     ELSE IF Method(CurFolderConfig) = "urls"
     THEN IF CurFolderConfig.urls = 0
          THEN FolderReturns(NothingToDownload)
          ELSE \E mkdirThrows \in BOOLEAN :
                 IF mkdirThrows
                 THEN FolderReturns(FolderFailure("EACCES: permission denied"))
                 ELSE FirstFile(0)
     ELSE FolderReturns(FolderFailure("Unknown method"))
  /\ UNCHANGED <<targetFolder, images, apiKey, foldersToSync, attempts,
                 fileLog, imageTotals, imageLog, imageExit,
                 normVars, syncVars, hookVars>>

\* syncDriveFolder: await listDriveFiles(...) returns the files or throws.
ListDriveFiles ==
  /\ InFolderLoop
  /\ fpos = "list"
  /\ \E count \in 0..MaxFiles, threw \in BOOLEAN :
       IF threw
       THEN FolderReturns(FolderFailure("Drive API error"))
       ELSE IF count = 0
       THEN FolderReturns(NothingToDownload)
       ELSE FirstFile(count)
  /\ UNCHANGED <<targetFolder, images, apiKey, foldersToSync, attempts,
                 fileLog, imageTotals, imageLog, imageExit,
                 normVars, syncVars, hookVars>>

\* The end of one iteration of the file loop, with the counters as they
\* stand: the next file, or the return after the last one.
NextFile(count, failedCount) ==
  IF fileNo = FileCount
  THEN FolderReturns(FolderDone(count, failedCount))
  ELSE /\ fileNo' = fileNo + 1
       /\ fpos' = "download"
       /\ downloaded' = count
       /\ failed' = failedCount
       /\ UNCHANGED <<folderResults, fidx, ipc, driveFiles>>

\* await downloadFile(...) / downloadDriveFile(...) resolves.
DownloadOk ==
  /\ InFolderLoop
  /\ fpos = "download"
  /\ attempts' = [attempts EXCEPT ![CurFolder][fileNo] = @ + 1]
  /\ fpos' = "optimize"
  /\ UNCHANGED <<targetFolder, images, apiKey, ipc, foldersToSync, fidx,
                 driveFiles, fileNo, downloaded, failed, fileLog,
                 folderResults, imageTotals, imageLog, imageExit,
                 normVars, syncVars, hookVars>>

\* Fault: the first failed download ends the folder.
DownloadFailsAborts ==
  /\ InFolderLoop
  /\ fpos = "download"
  /\ attempts' = [attempts EXCEPT ![CurFolder][fileNo] = @ + 1]
  /\ fileLog' = fileLog \cup {<<CurFolder, fileNo, "Failed">>}
  /\ FolderReturns(FolderFailure("Failed to download"))
  /\ UNCHANGED <<targetFolder, images, apiKey, foldersToSync, imageTotals,
                 imageLog, imageExit, normVars, syncVars, hookVars>>

\* The download rejects or throws: the file loop's catch logs it and
\* counts it.
DownloadFails ==
  /\ InFolderLoop
  /\ fpos = "download"
  /\ attempts' = [attempts EXCEPT ![CurFolder][fileNo] = @ + 1]
  /\ fileLog' = fileLog \cup {<<CurFolder, fileNo, "Failed">>}
  /\ NextFile(downloaded, failed + 1)
  /\ UNCHANGED <<targetFolder, images, apiKey, foldersToSync, imageTotals,
                 imageLog, imageExit, normVars, syncVars, hookVars>>

\* await optimizeImage(outputPath): the image is resized, left as it is,
\* or sharp throws and optimizeImage's own catch logs it; downloaded++.
OptimizeImage ==
  /\ InFolderLoop
  /\ fpos = "optimize"
  /\ \E outcome \in {"Optimized", "Failed to optimize", "left as it is"} :
       fileLog' = IF outcome = "left as it is"
                  THEN fileLog
                  ELSE fileLog \cup {<<CurFolder, fileNo, outcome>>}
  /\ NextFile(downloaded + 1, failed)
  /\ UNCHANGED <<targetFolder, images, apiKey, foldersToSync, attempts,
                 imageTotals, imageLog, imageExit,
                 normVars, syncVars, hookVars>>

\* The summary loop of download-images.js over entries 1..k.
RECURSIVE ImageTally(_, _, _)
ImageTally(folders, res, k) ==
  IF k = 0 THEN NoImageTotals
  ELSE LET before == ImageTally(folders, res, k - 1)
           result == res[folders[k][1]]
       IN  IF result.success
           THEN [before EXCEPT !.success = @ + 1, !.images = @ + result.count]
           ELSE [before EXCEPT !.failed = @ + 1]

\* "Print summary" to the end of main of download-images.js
ImageSummary ==
  /\ ipc = "summary"
  /\ imageTotals' = ImageTally(foldersToSync, folderResults, Len(foldersToSync))
  /\ imageLog' = imageLog \cup {"Download Summary"} \cup
       (IF imageTotals'.failed > 0 THEN {}
        ELSE {"Image download completed successfully"})
  /\ imageExit' = IF imageTotals'.failed > 0 THEN 1 ELSE 0
  /\ ipc' = "exited"
  /\ UNCHANGED <<targetFolder, images, apiKey, foldersToSync, fidx, fpos,
                 driveFiles, fileNo, downloaded, failed, attempts, fileLog,
                 folderResults, normVars, syncVars, hookVars>>

InitImages ==
  /\ targetFolder \in FolderArgs
  /\ images \in ImageConfigs
  /\ apiKey \in BOOLEAN
  /\ ipc = "start"
  /\ ImagesFresh
  /\ NormOff
  /\ SyncOff
  /\ HookOff

NextImages ==
  \/ ImageResolve \/ SyncFolder \/ ListDriveFiles
  \/ DownloadOk \/ DownloadFails \/ OptimizeImage
  \/ ImageSummary

SpecImages == InitImages /\ [][NextImages]_vars

\* C21: in an image-sync run a per-file failure is logged and counted and
\* the run goes on. No step of the file loop ends the run; when a folder's
\* file loop returns, every one of its files has been attempted exactly
\* once, the folder's failed count is the number of downloads that failed,
\* every other file is counted as downloaded whether or not its optimize
\* step failed, and the folder is a success exactly when no download
\* failed; and a run that entered the folder loop exits only with the
\* summary printed.
C21_PerFileFailureNonFatal ==
  [][/\ \A f \in Folders : \A k \in 1..MaxFiles : attempts'[f][k] <= 1
     /\ (InFolderLoop /\ fpos \in {"download", "optimize"}) =>
          /\ ipc' \in {"loop", "summary"}
          /\ imageExit' = -1
          /\ (<<CurFolder, fileNo, "Failed">> \in fileLog' \ fileLog) =>
                \/ failed' = failed + 1
                \/ folderResults'[CurFolder].failed = failed + 1
          /\ fidx' # fidx =>
               LET result == folderResults'[CurFolder]
                   lost == {k \in 1..FileCount :
                              <<CurFolder, k, "Failed">> \in fileLog'}
               IN  /\ fileNo = FileCount
                   /\ \A k \in 1..MaxFiles :
                        attempts'[CurFolder][k] = IF k <= FileCount THEN 1 ELSE 0
                   /\ result.set
                   /\ result.failed = Cardinality(lost)
                   /\ result.count = FileCount - Cardinality(lost)
                   /\ result.success <=> lost = {}
     /\ (imageExit' # -1 /\ fidx' >= 1) => "Download Summary" \in imageLog'
    ]_vars

\* A folder of two files: the first download failed, the second file was
\* downloaded and its optimization failed. Both were attempted once, the
\* folder counts 1 downloaded and 1 failed, and the run has printed its
\* summary.
C21_Witness ==
  /\ ipc = "exited"
  /\ <<"board_photos", 1, "Failed">> \in fileLog
  /\ <<"board_photos", 2, "Failed to optimize">> \in fileLog
  /\ <<"board_photos", 2, "Failed">> \notin fileLog
  /\ attempts["board_photos"][1] = 1
  /\ attempts["board_photos"][2] = 1
  /\ folderResults["board_photos"] = FolderDone(1, 1)
  /\ "Download Summary" \in imageLog

\* =================================================== webhook-trigger.gs
\* const DEBOUNCE_DELAY = 5000
DEBOUNCE_DELAY == 5000

MaxCalls == 4

\* Date.now() when the first execution starts: any time later than 5 s
\* after the epoch, kept small enough for TLC's integers.
ClockStart == 200 * DEBOUNCE_DELAY

\* The milliseconds that pass between two edits.
Gaps == {0, 1000, 4999, 5000, 9000}

\* An execution of the script starts: Apps Script evaluates the top-level
\* statements, `let lastTriggerTime = 0` among them, in every execution,
\* and runs every trigger event as an execution of its own.
LoadScript ==
  /\ hpc = "idle"
  /\ lastTriggerTime' = 0
  /\ loaded' = TRUE
  /\ UNCHANGED <<now, tokenSet, hpc, calls, posts, hookLog,
                 normVars, syncVars, imageVars>>

\* debouncedOnEdit(e), up to the call of onEdit(e)
DebouncedOnEdit ==
  /\ hpc = "idle"
  /\ loaded
  /\ Len(calls) < MaxCalls
  /\ \E gap \in Gaps :
       /\ now' = now + gap
       /\ IF now' - lastTriggerTime < DEBOUNCE_DELAY
          THEN /\ hookLog' = hookLog \cup {"Skipping trigger (debounced)"}
               /\ calls' = Append(calls, <<now', "skipped">>)
               /\ UNCHANGED <<lastTriggerTime, hpc>>
          ELSE /\ lastTriggerTime' = now'
               /\ calls' = Append(calls, <<now', "through">>)
               /\ hpc' = "edit"
               /\ UNCHANGED hookLog
  /\ UNCHANGED <<loaded, tokenSet, posts, normVars, syncVars, imageVars>>

\* onEdit(e) and triggerGitHubAction up to UrlFetchApp.fetch: the
\* configuration checks return without a request.
OnEdit ==
  /\ hpc = "edit"
  /\ IF tokenSet
     THEN hpc' = "post" /\ hookLog' = hookLog \cup {"Sheet edited"}
     ELSE hpc' = "idle" /\ hookLog' = hookLog \cup {"Sheet edited", "not configured"}
  /\ UNCHANGED <<now, lastTriggerTime, loaded, tokenSet, calls, posts,
                 normVars, syncVars, imageVars>>

\* UrlFetchApp.fetch(url, options) and the logging of its outcome: 204,
\* another response code, or an exception; nothing is tried again.
Post ==
  /\ hpc = "post"
  /\ posts' = Append(posts, now)
  /\ \E outcome \in {"Successfully triggered", "Unexpected response code",
                      "Failed to trigger"} :
       hookLog' = hookLog \cup {outcome}
  /\ hpc' = "idle"
  /\ UNCHANGED <<now, lastTriggerTime, loaded, tokenSet, calls,
                 normVars, syncVars, imageVars>>

InitHook ==
  /\ now = ClockStart
  /\ lastTriggerTime = 0
  /\ loaded = FALSE
  /\ tokenSet \in BOOLEAN
  /\ hpc = "idle"
  /\ calls = <<>>
  /\ posts = <<>>
  /\ hookLog = {}
  /\ NormOff
  /\ SyncOff
  /\ ImagesOff

NextHook == LoadScript \/ DebouncedOnEdit \/ OnEdit \/ Post

SpecHook == InitHook /\ [][NextHook]_vars

\* The calls of debouncedOnEdit that were let through.
Through == {i \in 1..Len(calls) : calls[i][2] = "through"}

\* C22 (as claimed): a call made less than DEBOUNCE_DELAY after the last
\* call that was let through is skipped and issues no POST, so any two
\* triggers let through, and any two POSTs, are at least DEBOUNCE_DELAY
\* apart; and there is at most one POST per trigger let through.
C22_TriggersAtLeastDelayApart ==
  /\ \A i, j \in Through :
       i < j => calls[j][1] - calls[i][1] >= DEBOUNCE_DELAY
  /\ \A i, j \in 1..Len(posts) :
       i < j => posts[j] - posts[i] >= DEBOUNCE_DELAY
  /\ Len(posts) <= Cardinality(Through)

\* What does hold: the window is kept towards lastTriggerTime as the running
\* execution knows it, a skipped call leaves lastTriggerTime as it was, and
\* every POST belongs to a trigger let through at that time.
DebounceWithinOneExecution ==
  /\ Len(posts) <= Cardinality(Through)
  /\ \A k \in 1..Len(posts) : \E i \in Through : calls[i][1] = posts[k]
  /\ lastTriggerTime \in {0} \cup {calls[i][1] : i \in Through}
  /\ \A i \in 1..Len(calls) :
       calls[i][2] = "skipped" =>
         \E j \in Through : j < i /\ calls[i][1] - calls[j][1] < DEBOUNCE_DELAY

\* C23: once a source's body has been parsed, a falsy top-level value
\* (null, false, 0, "") has been replaced by the empty array: the source
\* cannot fail at validation (only a filesystem error of the write can fail
\* it) and when its sync returns it is a success of count 0 whose output
\* file holds the empty list; and a source fails with 'is not an array'
\* only when the parsed value is a truthy non-array: a mapping, a non-empty
\* string, a non-zero number or true.
C23_FalsyBodyBecomesEmptyTable ==
  [][(InLoop /\ req.phase = "ended") =>
       LET json == JSONparse(data).value
           path == CurConfig.outputPath
       IN  /\ Falsy(json) =>
                /\ rawData = Arr(<<>>)
                /\ stage'[Cur] = "failed" =>
                      results'[Cur].error.kind = "EACCES: permission denied"
                /\ stage'[Cur] = "done" =>
                      /\ results'[Cur].success /\ results'[Cur].count = 0
                      /\ files'[path] = YAMLstringify(Arr(<<>>))
           /\ results'[Cur].error.kind = "is not an array" =>
                /\ ~Falsy(json)
                /\ \/ json.t = "obj"
                   \/ json.t = "str" /\ json.s # <<>>
                   \/ json.t = "num" /\ json.n # 0
                   \/ json.t = "bool" /\ json.b
    ]_vars

\* With validation enabled a source answered 0: it ended as a success of
\* 0 records and its old file was replaced by the empty list.
C23_Witness ==
  /\ InLoop
  /\ config.options.validateData
  /\ req.phase = "ended"
  /\ data = <<"0">>
  /\ stage[Cur] = "done"
  /\ results[Cur].success /\ results[Cur].count = 0
  /\ files[CurConfig.outputPath] = YAMLstringify(Arr(<<>>))
  /\ backups[CurConfig.outputPath] = OldFile

\* C24: the filesystem changes only in the write stage of the source being
\* synced and only on that source's own path: the output file becomes the
\* serialization of the normalized data (or what a failed write left of
\* it), never a merge with its old content, and the backup becomes the old
\* file. A step that fails a source in its fetch or validation changes no
\* file, and such a source's output file and backup are as the run found
\* them.
C24_FailureLeavesFilesAlone ==
  [][/\ \A p \in Paths :
          (files'[p] # files[p] \/ backups'[p] # backups[p]) =>
             /\ InLoop
             /\ stage[Cur] = "writing"
             /\ p = CurConfig.outputPath
             /\ files'[p] \in
                  {files[p], YAMLstringify(normalizedData), Truncated}
             /\ backups'[p] \in {backups[p], files[p]}
     /\ fsLog' # fsLog => InLoop /\ stage[Cur] = "writing"
     /\ \A n \in Names :
          (/\ stage'[n] = "failed"
           /\ results'[n].error.kind # "EACCES: permission denied") =>
             /\ files'[OutputPath(n)] = files[OutputPath(n)]
             /\ backups'[OutputPath(n)] = backups[OutputPath(n)]
             /\ files'[OutputPath(n)] \in {NoFile, OldFile}
             /\ backups'[OutputPath(n)] \in {NoFile, OlderFile}
    ]_vars

\* One source was synced over its old file; another got a 404 and its
\* file and backup are the ones the run found.
C24_Witness ==
  /\ \E n \in Names :
       /\ stage[n] = "failed"
       /\ results[n].error.kind = "HTTP"
       /\ files[OutputPath(n)] = OldFile
       /\ backups[OutputPath(n)] = OlderFile
  /\ \E n \in Names :
       /\ stage[n] = "done"
       /\ files[OutputPath(n)] # OldFile
       /\ backups[OutputPath(n)] = OldFile

\* A response that makes fetchJson issue one more request.
Redirected == ResponseRedirect \/ ResponseRedirectBack

\* Every selected source has its one result, terminal and matching its
\* stage.
EachSelectedHasItsResult ==
  /\ ReachedLoop
  /\ \A i \in 1..Len(sheetsToSync) :
       LET n == sheetsToSync[i][1]
       IN  /\ results[n].set
           /\ stage[n] \in {"done", "failed"}
           /\ results[n].success <=> stage[n] = "done"

\* C25 (as claimed): unless redirects go on forever, the run eventually
\* exits having given each selected source exactly one terminal result.
C25_EveryRunEndsWithAllResults ==
  []<><<Redirected>>_vars \/ <>(pc = "exited" /\ EachSelectedHasItsResult)

\* C25 (amended): unless redirects go on forever, the run eventually exits,
\* and when it exits after entering the per-source loop every selected source
\* has exactly one terminal result (a run stopped before the loop exits
\* with no result at all); and while redirects go on forever the run never
\* reaches the summary or the exit and the source being fetched never
\* becomes done or failed.
C25_ExitsUnlessRedirectedForever ==
  /\ []<><<Redirected>>_vars \/ <>(pc = "exited")
  /\ [](pc = "exited" =>
         IF ReachedLoop THEN EachSelectedHasItsResult
         ELSE \A n \in Names : ~results[n].set)
  /\ []<><<Redirected>>_vars =>
       /\ [](pc \notin {"summary", "exited"})
       /\ <>[](InLoop /\ stage[Cur] = "fetching")

\* The second source's chain has come back to the URL it started from.
C25_Witness ==
  /\ InLoop
  /\ idx = 2
  /\ stage[Cur] = "fetching"
  /\ req = Request("sent", CurConfig.jsonUrl, 0)
  /\ status[Cur] \in {301, 302}
  /\ settled[Cur] = 0

====
